---- MODULE Spec2Model ----
(***************************************************************************)
(* Response tracking of the curator monitoring bot (src/discord_bot.py)    *)
(* and the curator rating system (src/rating_system.py).                   *)
(*                                                                         *)
(* The bot runs on one asyncio event loop.  A coroutine gives up control   *)
(* only where it awaits something that really suspends: in this module    *)
(* that is asyncio.sleep() in schedule_notification_check and the network  *)
(* send in send_notification.  The database calls are synchronous, so the  *)
(* handlers on_message and on_reaction_add each run to completion and are  *)
(* one action each; the timer task is the steps between its suspensions.   *)
(*                                                                         *)
(* Timestamps are whole seconds.  A nullable column is the empty set when  *)
(* NULL and a singleton set when it holds a value.  All messages are in    *)
(* ordinary channels, so the task-report branches of on_message are not    *)
(* taken.                                                                  *)
(*                                                                         *)
(* Spec and FairSpec are the bot; RatingSpec is the rating system applied  *)
(* to tables of activity rows and resolved responses.                      *)
(***************************************************************************)
EXTENDS Integers, Sequences, FiniteSets, Bags, TLC

VARIABLES
    now,         \* datetime.utcnow(), in seconds
    ticks,       \* number of clock advances so far
    posted,      \* for each message id, its created_at and its reply
                 \* reference once it is posted
    trackings,   \* table response_tracking, index = primary key
    tasks,       \* asyncio tasks running schedule_notification_check
    sent,        \* tracking ids of the notifications sent to the channel
    activities,  \* table activities: number of rows per curator and type
    events,      \* number of gateway events dispatched so far
    last,        \* history: the event dispatched last
    db,          \* the tables and settings the rating system reads
    result       \* what the last call of the rating system returned

botvars == <<now, ticks, posted, trackings, tasks, sent, activities, events, last>>
ratingvars == <<db, result>>
vars == <<now, ticks, posted, trackings, tasks, sent, activities, events, last,
          db, result>>

----------------------------------------------------------------------------
\* Bounds of the model.
MaxMsgs == 4
MaxTicks == 1
MaxEvents == 3

\* Program constants.
notification_timeout == 600
time_threshold_hours == 2
SecondsPerHour == 3600
time_threshold_seconds == time_threshold_hours * SecondsPerHour

\* Clock advances: half a notification timeout, or a whole lookback window.
ShortWait == notification_timeout \div 2
Jumps == {ShortWait, time_threshold_seconds}

\* Discord identities.  Curators are the rows of table curators with
\* is_active = True; ActiveGuilds the rows of discord_servers with
\* is_active = True.
CuratorIds == {"c1", "c2"}
Members == CuratorIds \cup {"u1"}
Bots == {"b1"}
Users == Members \cup Bots
ActiveGuilds == {"g1", "g2"}

Null == {}
Some(v) == {v}
NoServer == "none"
NoCurator == "none"

----------------------------------------------------------------------------
\* Lookups.

\* Variant: the lookup does not filter on is_active.
get_server_any(guild) == guild

get_server_by_guild_id(guild) ==
    IF guild \in ActiveGuilds THEN guild ELSE NoServer

\* Variant: every identity is taken for a curator.
get_curator_any(user) == user

get_curator_by_discord_id(user) ==
    IF user \in CuratorIds THEN user ELSE NoCurator

\* is_help_request of on_message: the message text holds a help keyword or
\* the message mentions the curator role of its server.
contains_help_keywords(content) == content = "help"
contains_curator_mention(m) == m.content = "<@&role>"
is_help_request(m) ==
    contains_help_keywords(m.content) \/ contains_curator_mention(m)

\* The messages users post, by message id: author, guild and whether the
\* text holds a help keyword.
Catalogue ==
    << [author |-> "u1", guild |-> "g1", content |-> "help"],
       [author |-> "c1", guild |-> "g1", content |-> "help"],
       [author |-> "u1", guild |-> "g2", content |-> "help"],
       [author |-> "u1", guild |-> "g0", content |-> "help"],
       [author |-> "c2", guild |-> "g1", content |-> "ok"],
       [author |-> "b1", guild |-> "g1", content |-> "help"] >>
MsgIds == 1..MaxMsgs
Unposted == {}
PostedAt(p) == (CHOOSE x \in p : TRUE).created_at
ReferenceOf(p) == (CHOOSE x \in p : TRUE).reference

\* message.reference of a new message: none, or (for a curator's message)
\* a message already posted in the same guild.  No handler reads it.
References(mid, pst) ==
    {Null} \cup
    {Some(r) : r \in {x \in MsgIds \ {mid} :
                         /\ Catalogue[mid].author \in CuratorIds
                         /\ pst[x] # Unposted
                         /\ Catalogue[x].guild = Catalogue[mid].guild}}

\* The message object the gateway hands to a handler.
Message(mid, t, ref) ==
    [id |-> mid, author |-> Catalogue[mid].author,
     guild |-> Catalogue[mid].guild, content |-> Catalogue[mid].content,
     created_at |-> t, reference |-> ref]

----------------------------------------------------------------------------
\* log_activity: one row per call unless the commit fails.  The table is
\* kept as the number of rows per curator and activity type.

ActivityTypes == {"message", "reaction", "reply", "task_verification"}

log_activity(acts, curator, activity_type, ok) ==
    IF ok
    THEN [acts EXCEPT ![<<curator, activity_type>>] = @ + 1]
    ELSE acts

----------------------------------------------------------------------------
\* create_response_tracking.

ExistingTracking(trk, mid) ==
    {i \in DOMAIN trk : trk[i].mention_message_id = mid}

NewTracking(trk, m, server) ==
    [id |-> Len(trk) + 1,
     server_id |-> server,
     mention_message_id |-> m.id,
     mention_timestamp |-> m.created_at,
     mention_author_id |-> m.author,
     is_resolved |-> FALSE,
     curator_id |-> Null,
     response_message_id |-> Null,
     response_timestamp |-> Null,
     response_type |-> Null,
     response_time_seconds |-> Null]

\* Variant: the insert is not guarded by the lookup of an existing row.
create_inserts_unchecked(trk, m, ok) == ok

\* TRUE when the call inserts a row (and then starts the timer task).
create_inserts(trk, m, ok) ==
    ExistingTracking(trk, m.id) = {} /\ ok

create_response_tracking(trk, m, server, ok) ==
    IF create_inserts(trk, m, ok)
    THEN Append(trk, NewTracking(trk, m, server))
    ELSE trk

\* Variant: the timer task is started before the lookup of an existing row.
create_task_always(tsk, trk, m, ok, t) ==
    Append(tsk, [tracking_id |->
                    IF ExistingTracking(trk, m.id) = {} THEN Len(trk) + 1
                    ELSE CHOOSE i \in ExistingTracking(trk, m.id) : TRUE,
                 pc |-> "sleeping", wake |-> t + notification_timeout])

\* Variant: no timer task is started.
create_task_never(tsk, trk, m, ok, t) == tsk

\* Variant: the handler awaits schedule_notification_check instead of
\* starting it as a task, so the sleep is over when the handler returns.
create_task_awaited(tsk, trk, m, ok, t) ==
    IF create_inserts(trk, m, ok)
    THEN Append(tsk, [tracking_id |-> Len(trk) + 1, pc |-> "sending",
                      wake |-> t])
    ELSE tsk

create_task(tsk, trk, m, ok, t) ==
    IF create_inserts(trk, m, ok)
    THEN Append(tsk, [tracking_id |-> Len(trk) + 1, pc |-> "sleeping",
                      wake |-> t + notification_timeout])
    ELSE tsk

\* Variant: the record is not read again after the sleep.
always_unresolved(trk, id) == id \in DOMAIN trk

\* The check schedule_notification_check makes after its sleep.
still_unresolved(trk, id) ==
    id \in DOMAIN trk /\ ~trk[id].is_resolved

----------------------------------------------------------------------------
\* update_response_tracking.

\* Variant: the query does not filter on is_resolved.
CandidatesAny(trk, guild, t) ==
    {i \in DOMAIN trk :
        /\ trk[i].mention_timestamp >= t - time_threshold_seconds
        /\ trk[i].server_id = get_server_by_guild_id(guild)}

\* Variant: the query does not filter on the lookback window.
CandidatesNoWindow(trk, guild, t) ==
    {i \in DOMAIN trk :
        /\ trk[i].is_resolved = FALSE
        /\ trk[i].server_id = get_server_by_guild_id(guild)}

\* Variant: the query is not joined with the server of the response.
CandidatesAnyServer(trk, guild, t) ==
    {i \in DOMAIN trk :
        /\ trk[i].mention_timestamp >= t - time_threshold_seconds
        /\ trk[i].is_resolved = FALSE}

\* The rows the query of update_response_tracking selects from.
Candidates(trk, guild, t) ==
    {i \in DOMAIN trk :
        /\ trk[i].mention_timestamp >= t - time_threshold_seconds
        /\ trk[i].is_resolved = FALSE
        /\ trk[i].server_id = get_server_by_guild_id(guild)}

\* .first() on a query without ORDER BY: any of the selected rows, 0 if none.
FirstChoices(trk, guild, t) ==
    IF Candidates(trk, guild, t) = {} THEN {0} ELSE Candidates(trk, guild, t)

\* Variant: the response fields are written but is_resolved is left as it is.
Resolved_unflagged(r, response_message, curator, response_type) ==
    [r EXCEPT !.curator_id = Some(curator),
              !.response_message_id = Some(response_message.id),
              !.response_timestamp = Some(response_message.created_at),
              !.response_type = Some(response_type),
              !.response_time_seconds =
                  Some(response_message.created_at - r.mention_timestamp)]

Resolved(r, response_message, curator, response_type) ==
    [r EXCEPT !.curator_id = Some(curator),
              !.response_message_id = Some(response_message.id),
              !.response_timestamp = Some(response_message.created_at),
              !.response_type = Some(response_type),
              !.response_time_seconds =
                  Some(response_message.created_at - r.mention_timestamp),
              !.is_resolved = TRUE]

\* Variant: the assignments stay in place when the commit raises.
update_without_rollback(trk, response_message, curator, response_type, pick, ok) ==
    IF pick # 0
    THEN [trk EXCEPT ![pick] =
              Resolved(trk[pick], response_message, curator, response_type)]
    ELSE trk

\* pick is the row .first() returned (0: none); ok is FALSE when the commit
\* raises and the session is rolled back.
update_response_tracking(trk, response_message, curator, response_type, pick, ok) ==
    IF pick # 0 /\ ok
    THEN [trk EXCEPT ![pick] =
              Resolved(trk[pick], response_message, curator, response_type)]
    ELSE trk

----------------------------------------------------------------------------
\* The rating system (src/rating_system.py).  Its methods only read the
\* database; they are modelled for queries that do not raise.  Table
\* activities and the resolved rows of response_tracking are bags of rows;
\* a timestamp is kept as the row's age in days at the time of the call.

MaxRows == 3
MaxScore == 60

activity_points_message == 3
activity_points_reaction == 1
activity_points_reply == 2
activity_points_task_verification == 5
response_time_good_seconds == 60
response_time_poor_seconds == 300
default_days == 30
week_days == 7

\* GlobalRatingConfig as _load_rating_config creates it.
rating_config ==
    [activity_points_message |-> activity_points_message,
     activity_points_reaction |-> activity_points_reaction,
     activity_points_reply |-> activity_points_reply,
     activity_points_task_verification |-> activity_points_task_verification,
     response_time_good_seconds |-> response_time_good_seconds,
     response_time_poor_seconds |-> response_time_poor_seconds]

\* The configurations an administrator posts to /api/settings/ratings.
ConfigUpdates == {[rating_config EXCEPT !.activity_points_message = 4]}

\* Table curators: primary key and is_active.
CuratorRows ==
    {[id |-> 1, is_active |-> TRUE],
     [id |-> 2, is_active |-> TRUE],
     [id |-> 3, is_active |-> FALSE]}
CuratorPks == {c.id : c \in CuratorRows}

\* The inputs of the rating system: periods asked for, ages of rows in
\* days, rows written per batch, latencies of resolved responses.
Days == {week_days, default_days}
Ages == {0, default_days}
BatchSize ==
    [message |-> 10, reaction |-> 2, reply |-> 1, task_verification |-> 10]
Latencies == {45, 60, 250, 300, 400}
Limits == {1, 2}

\* Variant: the default rows end with the band "poor".
default_ratings_without_terrible ==
    {[rating_name |-> "excellent", min_score |-> 50],
     [rating_name |-> "good", min_score |-> 35],
     [rating_name |-> "normal", min_score |-> 20],
     [rating_name |-> "poor", min_score |-> 10]}

\* The default rows of rating_settings.
default_ratings ==
    {[rating_name |-> "excellent", min_score |-> 50],
     [rating_name |-> "good", min_score |-> 35],
     [rating_name |-> "normal", min_score |-> 20],
     [rating_name |-> "poor", min_score |-> 10],
     [rating_name |-> "terrible", min_score |-> 0]}

\* Contents of table rating_settings when the rating system is created:
\* empty, without a band of minimum 0, two bands of an administrator.
RatingSettingsTables ==
    { {},
      {[rating_name |-> "good", min_score |-> 35],
       [rating_name |-> "normal", min_score |-> 20]},
      {[rating_name |-> "excellent", min_score |-> 32],
       [rating_name |-> "terrible", min_score |-> 0]} }

\* ORDER BY min_score DESC.
RECURSIVE order_by_min_score_desc(_)
order_by_min_score_desc(rows) ==
    IF rows = {} THEN <<>>
    ELSE LET top == CHOOSE x \in rows :
                       \A y \in rows : x.min_score >= y.min_score
         IN <<top>> \o order_by_min_score_desc(rows \ {top})

_load_rating_thresholds(table) ==
    IF table = {}
    THEN order_by_min_score_desc(default_ratings)
    ELSE order_by_min_score_desc(table)

\* Variant: the period filter is left out of the query.
in_period_any(age, days) == TRUE

\* timestamp >= start_date and timestamp <= end_date, for a row of the given
\* age and start_date = end_date - days.
in_period(age, days) == age <= days /\ age >= 0

points(config, type) ==
    IF type = "message" THEN config.activity_points_message
    ELSE IF type = "reaction" THEN config.activity_points_reaction
    ELSE IF type = "reply" THEN config.activity_points_reply
    ELSE IF type = "task_verification"
         THEN config.activity_points_task_verification
    ELSE 0

\* query.filter(...).all(): the rows of the curator inside the period.
query_filter(table, curator_id, days) ==
    [r \in {x \in BagToSet(table) :
               x.curator_id = curator_id /\ in_period(x.age, days)}
        |-> table[r]]

\* The loop over the activities of the period.
RECURSIVE base_score(_, _)
base_score(config, acts) ==
    IF BagToSet(acts) = {} THEN 0
    ELSE LET r == CHOOSE x \in BagToSet(acts) : TRUE
         IN points(config, r.type) * acts[r]
            + base_score(config, [x \in BagToSet(acts) \ {r} |-> acts[x]])

\* response.response_time_seconds or 0
or_zero(x) == IF x = Null THEN 0 ELSE CHOOSE v \in x : TRUE

\* The branches of the loop of calculate_response_time_bonus.
bonus_of(config, response_time) ==
    IF response_time <= config.response_time_good_seconds THEN 2
    ELSE IF response_time <= config.response_time_poor_seconds THEN 0
    ELSE 0 - 1

RECURSIVE total_bonus(_, _)
total_bonus(config, resps) ==
    IF BagToSet(resps) = {} THEN 0
    ELSE LET r == CHOOSE x \in BagToSet(resps) : TRUE
         IN bonus_of(config, or_zero(r.response_time_seconds)) * resps[r]
            + total_bonus(config, [x \in BagToSet(resps) \ {r} |-> resps[x]])

calculate_response_time_bonus(d, curator_id, days) ==
    total_bonus(d.rating_config, query_filter(d.responses, curator_id, days))

\* Variant: the sum is returned as it is.
max_unfloored(a, b) == b

max(a, b) == IF a >= b THEN a ELSE b

calculate_curator_score(d, curator_id, days) ==
    LET base == base_score(d.rating_config,
                           query_filter(d.activities, curator_id, days))
        response_bonus == calculate_response_time_bonus(d, curator_id, days)
    IN [total_score |-> max(0, base + response_bonus),
        base_score |-> base,
        response_bonus |-> response_bonus,
        period_days |-> days]

\* Variant: the score has to exceed the minimum of the band.
satisfies_strictly(total_score, threshold) == total_score > threshold.min_score

satisfies(total_score, threshold) == total_score >= threshold.min_score

\* Variant: the fallback is the first threshold of the list.
highest_rating(thresholds) == thresholds[1]

\* self.rating_thresholds[-1]
lowest_rating(thresholds) == thresholds[Len(thresholds)]

\* The loop of get_curator_rating over the thresholds and its fallback.
rating_for(thresholds, total_score) ==
    LET hits == {k \in DOMAIN thresholds : satisfies(total_score, thresholds[k])}
    IN IF hits = {} THEN lowest_rating(thresholds)
       ELSE thresholds[CHOOSE k \in hits : \A j \in hits : k <= j]

get_curator_rating(d, curator_id, days) ==
    LET score_data == calculate_curator_score(d, curator_id, days)
        rating == rating_for(d.rating_thresholds, score_data.total_score)
    IN [rating_name |-> rating.rating_name,
        min_score |-> rating.min_score,
        score |-> score_data.total_score,
        score_data |-> score_data]

\* list.sort(key=score, reverse=True): a stable sort, so entries of equal
\* score keep the order they had.
RECURSIVE sort_by_score_desc(_)
sort_by_score_desc(list) ==
    IF list = <<>> THEN <<>>
    ELSE LET k == CHOOSE i \in DOMAIN list :
                     /\ \A j \in DOMAIN list : list[i].score >= list[j].score
                     /\ \A j \in 1..(i - 1) : list[j].score < list[i].score
             rest == [j \in 1..(Len(list) - 1) |->
                         IF j < k THEN list[j] ELSE list[j + 1]]
         IN <<list[k]>> \o sort_by_score_desc(rest)

\* curator_ratings[:limit]
first_n(list, limit) ==
    [j \in 1..(IF limit < Len(list) THEN limit ELSE Len(list)) |-> list[j]]

\* The orders in which Curators.query.filter_by(is_active=True).all() can
\* return the active curators.
StorageOrders ==
    LET active == {c.id : c \in {x \in CuratorRows : x.is_active}}
    IN {s \in [1..Cardinality(active) -> active] :
           \A i, j \in DOMAIN s : s[i] = s[j] => i = j}

get_top_curators(d, curators, limit, days) ==
    LET curator_ratings ==
            [j \in DOMAIN curators |->
                [curator |-> curators[j],
                 rating |-> get_curator_rating(d, curators[j], days),
                 score |-> get_curator_rating(d, curators[j], days).score]]
    IN first_n(sort_by_score_desc(curator_ratings), limit)

NoResult == [kind |-> "none"]

\* The database before any row of a curator is written; rating_settings_found
\* is history: what table rating_settings held when the thresholds were loaded.
FreshDb(table) ==
    [activities |-> EmptyBag,
     responses |-> EmptyBag,
     rating_config |-> rating_config,
     rating_settings_found |-> table,
     rating_thresholds |-> _load_rating_thresholds(table)]

----------------------------------------------------------------------------
Init ==
    /\ now = 0
    /\ ticks = 0
    /\ posted = [mid \in MsgIds |-> Unposted]
    /\ trackings = <<>>
    /\ tasks = <<>>
    /\ sent = <<>>
    /\ activities = [k \in CuratorIds \X ActivityTypes |-> 0]
    /\ events = 0
    /\ last = [kind |-> "none", user |-> "none", guild |-> "none", at |-> 0,
               resolve |-> "none"]
    /\ db = FreshDb({})
    /\ result = NoResult

\* A sleeping timer whose deadline is still ahead.
PendingTimer == \E k \in DOMAIN tasks :
    tasks[k].pc = "sleeping" /\ tasks[k].wake > now

\* Time passes.
Tick ==
    /\ ticks < MaxTicks \/ PendingTimer
    /\ \E d \in Jumps :
          /\ ticks >= MaxTicks => d = ShortWait
          /\ now' = now + d
    /\ ticks' = ticks + 1
    /\ UNCHANGED <<posted, trackings, tasks, sent, activities, events, last>>
    /\ UNCHANGED ratingvars

\* The body of on_message(message) for message m, handled at time now.
\* How the call of update_response_tracking in a handler ended: no row was
\* found, the commit went through, or it raised and was rolled back.
outcome(pick, ok) ==
    IF pick = 0 THEN "none" ELSE IF ok THEN "committed" ELSE "rolled_back"

\* Variant: the record is opened before open records are looked for, and the
\* query returns the record just opened.
open_then_resolve(trk, m, curator, server, pick, okUpd, okNew) ==
    LET trk1 == IF is_help_request(m)
                THEN create_response_tracking(trk, m, server, okNew)
                ELSE trk
        first == IF Len(trk1) > Len(trk) THEN Len(trk1) ELSE pick
    IN IF curator # NoCurator
       THEN update_response_tracking(trk1, m, curator, "message", first, okUpd)
       ELSE trk1

\* The two tracking steps of on_message in their order: a curator's message
\* first resolves, a help request then opens.
resolve_then_open(trk, m, curator, server, pick, okUpd, okNew) ==
    LET trk1 == IF curator # NoCurator
                THEN update_response_tracking(trk, m, curator, "message",
                                              pick, okUpd)
                ELSE trk
    IN IF is_help_request(m)
       THEN create_response_tracking(trk1, m, server, okNew)
       ELSE trk1

HandleMessage(m, kind) ==
    LET server == get_server_by_guild_id(m.guild)
        curator == get_curator_by_discord_id(m.author)
    IN
    /\ events < MaxEvents
    /\ events' = events + 1
    /\ IF m.author \in Bots \/ server = NoServer
       THEN /\ UNCHANGED <<trackings, tasks, activities>>
            /\ last' = [kind |-> kind, user |-> m.author, guild |-> m.guild,
                        at |-> now, resolve |-> "none"]
       ELSE \E okLog \in BOOLEAN, okUpd \in BOOLEAN, okNew \in BOOLEAN :
            \E pick \in FirstChoices(trackings, m.guild, now) :
            LET acts1 == IF curator # NoCurator
                         THEN log_activity(activities, curator, "message", okLog)
                         ELSE activities
                trk2 == resolve_then_open(trackings, m, curator, server,
                                          pick, okUpd, okNew)
                tsk2 == IF is_help_request(m)
                        THEN create_task(tasks, trackings, m, okNew, now)
                        ELSE tasks
            IN /\ activities' = acts1
               /\ trackings' = trk2
               /\ tasks' = tsk2
               /\ last' = [kind |-> kind, user |-> m.author,
                           guild |-> m.guild, at |-> now,
                           resolve |-> IF curator = NoCurator THEN "none"
                                       ELSE outcome(pick, okUpd)]
    /\ UNCHANGED <<now, ticks, sent>>
    /\ UNCHANGED ratingvars

\* A user posts a message and the gateway dispatches on_message for it.
on_message(mid) ==
    /\ posted[mid] = Unposted
    /\ \E ref \in References(mid, posted) :
          /\ posted' = [posted EXCEPT ![mid] =
                            {[created_at |-> now, reference |-> ref]}]
          /\ HandleMessage(Message(mid, now, ref), "message")

\* The gateway dispatches on_message again for a message already seen.
on_message_again(mid) ==
    /\ posted[mid] # Unposted
    /\ UNCHANGED posted
    /\ HandleMessage(Message(mid, PostedAt(posted[mid]),
                             ReferenceOf(posted[mid])), "again")

\* Variant: the response is stamped with the time the reaction was added.
reaction_message_now(mid, pst, t) == Message(mid, t, ReferenceOf(pst[mid]))

\* reaction.message: what on_reaction_add hands on as the response is the
\* message reacted to, with that message's creation time.
reaction_message(mid, pst, t) ==
    Message(mid, PostedAt(pst[mid]), ReferenceOf(pst[mid]))

\* on_reaction_add(reaction, user) for a reaction on message mid.
on_reaction_add(mid, user) ==
    LET m == reaction_message(mid, posted, now)
        server == get_server_by_guild_id(m.guild)
        curator == get_curator_by_discord_id(user)
    IN
    /\ posted[mid] # Unposted
    /\ events < MaxEvents
    /\ events' = events + 1
    /\ IF user \in Bots \/ server = NoServer \/ curator = NoCurator
       THEN /\ UNCHANGED <<trackings, activities>>
            /\ last' = [kind |-> "reaction", user |-> user, guild |-> m.guild,
                        at |-> now, resolve |-> "none"]
       ELSE \E okLog \in BOOLEAN, okUpd \in BOOLEAN :
            \E pick \in FirstChoices(trackings, m.guild, now) :
               /\ activities' = log_activity(activities, curator, "reaction",
                                             okLog)
               /\ trackings' = update_response_tracking(
                                   trackings, m, curator, "reaction", pick, okUpd)
               /\ last' = [kind |-> "reaction", user |-> user,
                           guild |-> m.guild, at |-> now,
                           resolve |-> outcome(pick, okUpd)]
    /\ UNCHANGED <<now, ticks, posted, tasks, sent>>
    /\ UNCHANGED ratingvars

\* schedule_notification_check after the sleep: the record is read again
\* and, if it is still unresolved, send_notification is entered.
timer_fire(k) ==
    /\ k \in DOMAIN tasks
    /\ tasks[k].pc = "sleeping"
    /\ now >= tasks[k].wake
    /\ \E channel \in BOOLEAN :
         tasks' = [tasks EXCEPT ![k].pc =
                     IF ~still_unresolved(trackings, tasks[k].tracking_id)
                     THEN "skipped"
                     ELSE IF ~channel THEN "no_channel"
                     ELSE "sending"]
    /\ UNCHANGED <<now, ticks, posted, trackings, sent, activities, events, last>>
    /\ UNCHANGED ratingvars

\* Variant: a send that raised is retried after another sleep.
send_done_retry(k) ==
    /\ k \in DOMAIN tasks
    /\ tasks[k].pc = "sending"
    /\ \E ok \in BOOLEAN :
         /\ tasks' = [tasks EXCEPT ![k].pc = IF ok THEN "sent" ELSE "sleeping"]
         /\ sent' = IF ok THEN Append(sent, tasks[k].tracking_id) ELSE sent
    /\ UNCHANGED <<now, ticks, posted, trackings, activities, events, last>>
    /\ UNCHANGED ratingvars

\* notification_channel.send returns or raises.
send_done(k) ==
    /\ k \in DOMAIN tasks
    /\ tasks[k].pc = "sending"
    /\ \E ok \in BOOLEAN :
         /\ tasks' = [tasks EXCEPT ![k].pc = IF ok THEN "sent" ELSE "send_error"]
         /\ sent' = IF ok THEN Append(sent, tasks[k].tracking_id) ELSE sent
    /\ UNCHANGED <<now, ticks, posted, trackings, activities, events, last>>
    /\ UNCHANGED ratingvars

Next ==
    \/ Tick
    \/ \E mid \in MsgIds : on_message(mid)
    \/ \E mid \in MsgIds : on_message_again(mid)
    \/ \E mid \in MsgIds, user \in Users : on_reaction_add(mid, user)
    \/ \E k \in DOMAIN tasks : timer_fire(k)
    \/ \E k \in DOMAIN tasks : send_done(k)

Spec == Init /\ [][Next]_vars

\* The event loop wakes a sleeping task once its delay has passed and a
\* pending send returns or raises; time does not stop.
FairSpec ==
    /\ Spec
    /\ WF_vars(Tick)
    /\ \A k \in MsgIds : WF_vars(timer_fire(k)) /\ WF_vars(send_done(k))

----------------------------------------------------------------------------
\* The rating system at work: rows are written to its tables, then the
\* dashboard makes one call and keeps what it returned.

\* Number of batches of rows written so far.
RowsWritten(d) ==
    LET kinds == BagToSet(d.activities)
        RECURSIVE Batches(_)
        Batches(S) ==
            IF S = {} THEN 0
            ELSE LET r == CHOOSE x \in S : TRUE
                 IN d.activities[r] \div BatchSize[r.type] + Batches(S \ {r})
    IN Batches(kinds) + BagCardinality(d.responses)

RatingInit ==
    /\ now = 0
    /\ ticks = 0
    /\ posted = [mid \in MsgIds |-> Unposted]
    /\ trackings = <<>>
    /\ tasks = <<>>
    /\ sent = <<>>
    /\ activities = [k \in CuratorIds \X ActivityTypes |-> 0]
    /\ events = 0
    /\ last = [kind |-> "none", user |-> "none", guild |-> "none", at |-> 0,
               resolve |-> "none"]
    /\ db \in {FreshDb(table) : table \in RatingSettingsTables}
    /\ result = NoResult

\* log_activity has written a batch of rows of one curator and type.
add_activities(curator, type, age) ==
    /\ result = NoResult
    /\ db.rating_config = rating_config
    /\ RowsWritten(db) < MaxRows
    /\ db' = [db EXCEPT !.activities =
                 @ (+) [r \in {[curator_id |-> curator, type |-> type,
                                age |-> age]} |-> BatchSize[type]]]
    /\ UNCHANGED result
    /\ UNCHANGED botvars

\* update_response_tracking has resolved a record for the curator.
add_response(curator, latency, age) ==
    /\ result = NoResult
    /\ db.rating_config = rating_config
    /\ RowsWritten(db) < MaxRows
    /\ db' = [db EXCEPT !.responses =
                 @ (+) SetToBag({[curator_id |-> curator,
                                  response_time_seconds |-> Some(latency),
                                  age |-> age]})]
    /\ UNCHANGED result
    /\ UNCHANGED botvars

\* rating_settings() on POST: the row of GlobalRatingConfig is overwritten
\* and committed.  The rows of the curators are written before it.
update_rating_config(config) ==
    /\ result = NoResult
    /\ db.rating_config = rating_config
    /\ db' = [db EXCEPT !.rating_config = config]
    /\ UNCHANGED result
    /\ UNCHANGED botvars

call_get_curator_rating(curator, days) ==
    /\ result = NoResult
    /\ result' = [kind |-> "rating", curator_id |-> curator, days |-> days,
                  value |-> get_curator_rating(db, curator, days)]
    /\ UNCHANGED db
    /\ UNCHANGED botvars

call_get_top_curators(curators, limit, days) ==
    /\ result = NoResult
    /\ result' = [kind |-> "top", curators |-> curators, limit |-> limit,
                  days |-> days,
                  value |-> get_top_curators(db, curators, limit, days)]
    /\ UNCHANGED db
    /\ UNCHANGED botvars

RatingNext ==
    \/ \E curator \in CuratorPks, type \in ActivityTypes, age \in Ages :
          add_activities(curator, type, age)
    \/ \E c \in {x \in CuratorRows : x.is_active}, latency \in Latencies,
          age \in Ages :
          add_response(c.id, latency, age)
    \/ \E config \in ConfigUpdates : update_rating_config(config)
    \/ \E curator \in CuratorPks, days \in Days :
          call_get_curator_rating(curator, days)
    \/ \E curators \in StorageOrders, limit \in Limits, days \in Days :
          call_get_top_curators(curators, limit, days)

RatingSpec == RatingInit /\ [][RatingNext]_vars

----------------------------------------------------------------------------
\* Properties.

\* The record has had a notification sent for it.
Notified(i) == \E j \in DOMAIN sent : sent[j] = i
NoticesFor(i) == Cardinality({j \in DOMAIN sent : sent[j] = i})
TasksFor(i) == {k \in DOMAIN tasks : tasks[k].tracking_id = i}

\* The event dispatched last was a curator's, in the guild of record i.
LastIsCuratorIn(i) ==
    /\ last.kind \in {"message", "again", "reaction"}
    /\ last.user \in CuratorIds
    /\ last.guild = trackings[i].server_id

\* C1: there is at most one tracking record per originating message id and
\* at most one timer task per tracking record, however often the message
\* is delivered.
C1_OneRecordPerMessage ==
    /\ \A i, j \in DOMAIN trackings :
          trackings[i].mention_message_id = trackings[j].mention_message_id
              => i = j
    /\ \A i \in DOMAIN trackings : Cardinality(TasksFor(i)) <= 1

\* A help request of a curator was delivered again while it was tracked: the
\* second delivery resolved the record the first one had opened.
C1_Witness ==
    \E i \in DOMAIN trackings :
       /\ trackings[i].response_message_id = Some(trackings[i].mention_message_id)
       /\ trackings[i].response_type = Some("message")

C3_LatencyNonNegative ==
    \A i \in DOMAIN trackings :
       \A x \in trackings[i].response_time_seconds : x >= 0

\* C4: of two resolve attempts on one open record one resolves it, and the
\* other overwrites neither the curator nor the response timestamp nor the
\* latency the first one wrote; no step resolves two records.
C4_WinnerKept ==
    [][/\ \A i \in DOMAIN trackings :
             trackings[i].is_resolved =>
                /\ trackings'[i].is_resolved
                /\ trackings'[i].curator_id = trackings[i].curator_id
                /\ trackings'[i].response_timestamp
                       = trackings[i].response_timestamp
                /\ trackings'[i].response_time_seconds
                       = trackings[i].response_time_seconds
       /\ Cardinality({i \in DOMAIN trackings :
                          ~trackings[i].is_resolved
                          /\ trackings'[i].is_resolved}) <= 1]_vars

\* Both curators acted on a record that was still inside the lookback
\* window: one resolved it, the other's event came last.
C4_Witness ==
    \E i \in DOMAIN trackings :
       /\ trackings[i].is_resolved
       /\ LastIsCuratorIn(i)
       /\ trackings[i].curator_id \in {Some(c) : c \in CuratorIds \ {last.user}}
       /\ trackings[i].mention_timestamp >= last.at - time_threshold_seconds

C6_AtMostOneNotice ==
    \A i \in DOMAIN trackings : NoticesFor(i) <= 1

\* The only message posted is a help request; it was notified and the event
\* dispatched last was a second delivery of it.
C6_Witness ==
    /\ Cardinality({mid \in MsgIds : posted[mid] # Unposted}) = 1
    /\ last.kind = "again"
    /\ \E i \in DOMAIN trackings : Notified(i)

C9_NoSelfResponse ==
    \A i \in DOMAIN trackings :
       trackings[i].curator_id # Some(trackings[i].mention_author_id)

\* The open records of the guild of record i that the action which resolved
\* i could have resolved: inside the lookback window, not later than the
\* action, not written by the acting curator.
EligibleWith(i) ==
    {j \in Candidates(trackings, trackings[i].server_id, now) :
        /\ \A t \in trackings'[i].response_timestamp :
              trackings[j].mention_timestamp <= t
        /\ Some(trackings[j].mention_author_id) # trackings'[i].curator_id}

\* C10: the record a curator action resolves is, among the eligible open
\* records of the faction, the one with the latest mention timestamp.
C10_NearestResolved ==
    [][\A i \in DOMAIN trackings :
          (~trackings[i].is_resolved /\ trackings'[i].is_resolved)
              => \A j \in EligibleWith(i) :
                    trackings[j].mention_timestamp
                        <= trackings[i].mention_timestamp]_vars

\* C11: a record resolved by a curator's message that carries a reply
\* reference is the record of the referenced message.
C11_ReplyResolvesReferenced ==
    \A i \in DOMAIN trackings :
       \A mid \in trackings[i].response_message_id :
          (trackings[i].response_type = Some("message")
           /\ posted[mid] # Unposted)
             => \A r \in ReferenceOf(posted[mid]) :
                   trackings[i].mention_message_id = r

\* C18: a record that is resolved while its timer is still sleeping never
\* has a notification sent for it afterwards: the timer reads the record
\* when it fires, not when it was scheduled.
C18_ResolvedBeforeFireSilent ==
    \A i \in MsgIds :
       []((/\ i \in DOMAIN trackings
           /\ trackings[i].is_resolved
           /\ \E k \in TasksFor(i) : tasks[k].pc = "sleeping")
          => [](~Notified(i)))

\* A record is resolved and its timer is still pending, deadline ahead.
C18_Witness ==
    \E k \in DOMAIN tasks :
       /\ tasks[k].pc = "sleeping"
       /\ tasks[k].wake > now
       /\ trackings[tasks[k].tracking_id].is_resolved

\* C19: an event of an identity that is no active curator changes no
\* existing tracking record and logs no activity; a help request of such an
\* identity opens an unresolved record of its own.
C19_NonCuratorOnlyOpens ==
    [][(events' # events /\ last'.user \notin CuratorIds)
          => /\ activities' = activities
             /\ \A i \in DOMAIN trackings : trackings'[i] = trackings[i]
             /\ \A i \in DOMAIN trackings' \ DOMAIN trackings :
                   /\ ~trackings'[i].is_resolved
                   /\ trackings'[i].mention_author_id = last'.user]_vars

\* The event dispatched last was a help request of a non-curator; it has an
\* open record of its own while an older record is still open.
C19_Witness ==
    /\ last.kind = "message"
    /\ last.user \notin CuratorIds
    /\ \E i, j \in DOMAIN trackings :
          /\ i < j
          /\ ~trackings[i].is_resolved
          /\ trackings[i].server_id = last.guild
          /\ trackings[j].mention_author_id = last.user
          /\ trackings[j].mention_timestamp = last.at
          /\ ~trackings[j].is_resolved

\* C20: an event observed in one guild changes only tracking records of
\* that guild; the records of every other guild are left as they are.
C20_FactionIsolation ==
    [][events' # events
          => \A i \in DOMAIN trackings :
                trackings[i].server_id # last'.guild
                   => trackings'[i] = trackings[i]]_vars

\* A curator's action in one guild resolved a record of that guild while a
\* record of another guild, inside the lookback window, stayed open.
C20_Witness ==
    \E i, j \in DOMAIN trackings :
       /\ trackings[i].server_id # trackings[j].server_id
       /\ trackings[j].is_resolved
       /\ last.guild = trackings[j].server_id
       /\ Some(last.user) = trackings[j].curator_id
       /\ ~trackings[i].is_resolved
       /\ trackings[i].mention_timestamp >= last.at - time_threshold_seconds

----------------------------------------------------------------------------
\* Properties of the rating system.

\* The rows of a table that belong to the curator and lie in the period of
\* the call whose result is kept.
RowsInWindow(table) ==
    {r \in BagToSet(table) :
        r.curator_id = result.curator_id /\ r.age <= result.days /\ r.age >= 0}

\* The adjustment the specification gives for one response.
StatedAdjustment(latency) ==
    IF latency <= db.rating_config.response_time_good_seconds THEN 2
    ELSE IF latency >= db.rating_config.response_time_poor_seconds THEN 0 - 1
    ELSE 0

RECURSIVE StatedBonus(_)
StatedBonus(rows) ==
    IF rows = {} THEN 0
    ELSE LET r == CHOOSE x \in rows : TRUE
         IN StatedAdjustment(or_zero(r.response_time_seconds)) * db.responses[r]
            + StatedBonus(rows \ {r})

\* C12: the response bonus returned is the sum over the curator's resolved
\* responses of the period of +2 for a latency up to the good threshold, -1
\* for a latency of at least the poor threshold, and 0 in between.
C12_BonusAsStated ==
    result.kind = "rating"
       => result.value.score_data.response_bonus
             = StatedBonus(RowsInWindow(db.responses))

\* C13: the total score returned is max(0, base score + response bonus) and
\* so never negative; the base score and the response bonus are returned
\* as computed, without a floor.
C13_TotalFloored ==
    result.kind = "rating"
       => LET sd == result.value.score_data
              sum == sd.base_score + sd.response_bonus
          IN /\ sd.total_score >= 0
             /\ sd.total_score = IF sum > 0 THEN sum ELSE 0
             /\ result.value.score = sd.total_score
             /\ sd.response_bonus
                   = calculate_response_time_bonus(db, result.curator_id,
                                                   result.days)

\* A score was computed whose response bonus is negative and outweighs the
\* base score.
C13_Witness ==
    /\ result.kind = "rating"
    /\ result.value.score_data.response_bonus < 0
    /\ result.value.score_data.base_score
          + result.value.score_data.response_bonus < 0
    /\ result.value.score_data.total_score = 0

\* The points the configuration gives for the activity rows of the curator
\* in the period.
RECURSIVE StatedBase(_)
StatedBase(rows) ==
    IF rows = {} THEN 0
    ELSE LET r == CHOOSE x \in rows : TRUE
             config == db.rating_config
             value == CASE r.type = "message" -> config.activity_points_message
                        [] r.type = "reaction" -> config.activity_points_reaction
                        [] r.type = "reply" -> config.activity_points_reply
                        [] r.type = "task_verification"
                              -> config.activity_points_task_verification
         IN value * db.activities[r] + StatedBase(rows \ {r})

\* The curator of the call has exactly 10 messages and 2 reactions in the
\* period and no resolved response; the default bands are in force.
TenMessagesTwoReactions ==
    /\ result.kind = "rating"
    /\ db.rating_config = rating_config
    /\ db.rating_thresholds = _load_rating_thresholds({})
    /\ RowsInWindow(db.responses) = {}
    /\ Cardinality(RowsInWindow(db.activities)) = 2
    /\ {r.type : r \in RowsInWindow(db.activities)} = {"message", "reaction"}
    /\ \A r \in RowsInWindow(db.activities) :
          db.activities[r] = IF r.type = "message" THEN 10 ELSE 2

\* C14: the base score is the sum of the configured points of the curator's
\* activity rows inside the period; rows outside it or of other curators
\* add nothing.  10 messages and 2 reactions without responses give a base
\* score of 32 and the band "normal".
C14_BaseScoreInWindow ==
    /\ result.kind = "rating"
          => result.value.score_data.base_score
                = StatedBase(RowsInWindow(db.activities))
    /\ TenMessagesTwoReactions
          => /\ result.value.score_data.base_score = 32
             /\ result.value.rating_name = "normal"

\* The scenario of 10 messages and 2 reactions, next to rows of the same
\* curator that lie outside the period of the call.
C14_Witness ==
    /\ TenMessagesTwoReactions
    /\ \E r \in BagToSet(db.activities) :
          r.curator_id = result.curator_id /\ r.age > result.days

\* The thresholds a score satisfies.
Satisfied(thresholds, score) ==
    {k \in DOMAIN thresholds : thresholds[k].min_score <= score}

\* C15: the band returned is the one of highest minimum among the bands
\* whose minimum is at most the score, and the band of lowest minimum if
\* there is none; under the default bands 50 is "excellent", 49 is "good"
\* and 0 is "terrible".
C15_BandOfScore ==
    result.kind = "rating"
       => LET th == db.rating_thresholds
              v == result.value
          IN /\ \E k \in DOMAIN th :
                   /\ th[k].rating_name = v.rating_name
                   /\ th[k].min_score = v.min_score
             /\ Satisfied(th, v.score) # {}
                   => /\ v.min_score <= v.score
                      /\ \A k \in Satisfied(th, v.score) :
                            th[k].min_score <= v.min_score
             /\ Satisfied(th, v.score) = {}
                   => \A k \in DOMAIN th : v.min_score <= th[k].min_score
             /\ th = _load_rating_thresholds({})
                   => /\ v.score = 50 => v.rating_name = "excellent"
                      /\ v.score = 49 => v.rating_name = "good"
                      /\ v.score = 0 => v.rating_name = "terrible"

\* Under the default bands a curator with a total score of 49 was rated.
C15_Witness ==
    /\ result.kind = "rating"
    /\ db.rating_thresholds = _load_rating_thresholds({})
    /\ result.value.score = 49
    /\ result.value.rating_name = "good"

\* C16: band selection is monotonic in the score: against the band returned
\* for the score of the call, every lower score selects a band whose minimum
\* is not higher and every higher score one whose minimum is not lower.
C16_BandMonotonic ==
    result.kind = "rating"
       => \A s \in 0..MaxScore :
             LET other == rating_for(db.rating_thresholds, s).min_score
             IN /\ s < result.value.score => other <= result.value.min_score
                /\ s > result.value.score => other >= result.value.min_score

\* A score below every minimum of a table without a 0 band was rated: the
\* fallback band was returned.
C16_Witness ==
    /\ result.kind = "rating"
    /\ \A k \in DOMAIN db.rating_thresholds :
          db.rating_thresholds[k].min_score > result.value.score
    /\ result.value.min_score
          = db.rating_thresholds[Len(db.rating_thresholds)].min_score

\* C17: the leaderboard has at most `limit` entries, all of active curators,
\* in descending order of total score, and entries of equal score are in
\* ascending order of curator id.
C17_TopCuratorsOrdered ==
    result.kind = "top"
       => LET top == result.value
          IN /\ Len(top) <= result.limit
             /\ \A j \in DOMAIN top :
                   \E c \in CuratorRows : c.id = top[j].curator /\ c.is_active
             /\ \A i, j \in DOMAIN top :
                   i < j => \/ top[i].score > top[j].score
                            \/ /\ top[i].score = top[j].score
                               /\ top[i].curator < top[j].curator

----------------------------------------------------------------------------
\* Properties of the handlers under faults.

\* C23: an event of a guild that is no active server changes no activity
\* row, tracking record, timer task or notification.
C23_UnknownFactionDropped ==
    [][(events' # events /\ last'.guild \notin ActiveGuilds)
          => /\ trackings' = trackings
             /\ tasks' = tasks
             /\ activities' = activities
             /\ sent' = sent]_vars

\* After a help request in an unknown guild was dropped, a help request of
\* an active guild was handled and tracked.
C23_Witness ==
    /\ \E mid \in MsgIds :
          /\ posted[mid] # Unposted
          /\ Catalogue[mid].guild \notin ActiveGuilds
          /\ PostedAt(posted[mid]) < last.at
    /\ last.kind = "message"
    /\ \E i \in DOMAIN trackings :
          /\ trackings[i].mention_timestamp = last.at
          /\ trackings[i].server_id = last.guild
          /\ trackings[i].mention_author_id = last.user
    /\ \A i \in DOMAIN trackings : trackings[i].server_id \in ActiveGuilds

\* The help requests handled so far that on_message passes on to
\* create_response_tracking.
HelpRequestsSeen ==
    {mid \in MsgIds :
        /\ posted[mid] # Unposted
        /\ Catalogue[mid].author \notin Bots
        /\ Catalogue[mid].guild \in ActiveGuilds
        /\ contains_help_keywords(Catalogue[mid].content)}

\* C24: every help request that was handled has a timer task scheduled for
\* it, whether or not the write of its tracking record succeeded.
C24_TimerDespiteWriteFailure ==
    Len(tasks) >= Cardinality(HelpRequestsSeen)

\* The positions at which a timer task has ended.
Ended == {"skipped", "no_channel", "sent", "send_error"}

C26_OpenDoesNotBlock ==
    [][Len(tasks') > Len(tasks)
          => /\ now' = now
             /\ events' = events + 1
             /\ Len(tasks') = Len(tasks) + 1
             /\ tasks'[Len(tasks')].pc = "sleeping"
             /\ tasks'[Len(tasks')].wake = now' + notification_timeout
             /\ \A k \in DOMAIN tasks : tasks'[k] = tasks[k]]_vars

C26_Witness ==
    \E k \in DOMAIN tasks :
        /\ tasks[k].pc = "sleeping"
        /\ now < tasks[k].wake
        /\ trackings[tasks[k].tracking_id].is_resolved
        /\ \E j \in DOMAIN tasks :
              /\ j > k
              /\ tasks[j].pc = "sleeping"
              /\ ~trackings[tasks[j].tracking_id].is_resolved

\* C27: in the handling that opens a record the record is left open, and a
\* record that a handling resolves existed, open, before that handling.
C27_ResolveBeforeOpen ==
    [][\A i \in DOMAIN trackings' :
          /\ i \notin DOMAIN trackings => trackings'[i].response_message_id = Null
          /\ trackings'[i].is_resolved => i \in DOMAIN trackings]_vars

C27_Witness ==
    /\ last.kind = "message"
    /\ last.user \in CuratorIds
    /\ \E i, j \in DOMAIN trackings :
          /\ i < j
          /\ trackings[j].mention_author_id = last.user
          /\ trackings[j].mention_timestamp = last.at
          /\ ~trackings[j].is_resolved
          /\ trackings[i].is_resolved
          /\ trackings[i].response_message_id =
                 Some(trackings[j].mention_message_id)

\* C28: a record with is_resolved false has no curator, response message,
\* response timestamp, response type or latency; a record with is_resolved
\* true has all five, and its latency is the response timestamp minus the
\* mention timestamp in seconds.
C28_FieldsConsistent ==
    \A i \in DOMAIN trackings :
        LET r == trackings[i]
            all_unset == /\ r.curator_id = Null
                         /\ r.response_message_id = Null
                         /\ r.response_timestamp = Null
                         /\ r.response_type = Null
                         /\ r.response_time_seconds = Null
            all_set == /\ r.curator_id # Null
                       /\ r.response_message_id # Null
                       /\ r.response_timestamp # Null
                       /\ r.response_type # Null
                       /\ r.response_time_seconds # Null
        IN /\ ~r.is_resolved <=> all_unset
           /\ r.is_resolved <=> all_set
           /\ r.is_resolved =>
                 \E rt \in r.response_timestamp :
                     r.response_time_seconds = Some(rt - r.mention_timestamp)

C28_Witness ==
    /\ \E i \in DOMAIN trackings :
          /\ trackings[i].is_resolved
          /\ \E s \in trackings[i].response_time_seconds : s > 0
    /\ \E i \in DOMAIN trackings : ~trackings[i].is_resolved

\* C29: a handler whose resolving commit raised leaves every record and every
\* timer task that existed as it was, so the records that could be resolved
\* before it can be resolved after it.
C29_RollbackRestores ==
    [][(events' # events /\ last'.resolve = "rolled_back")
          => /\ \A i \in DOMAIN trackings : trackings'[i] = trackings[i]
             /\ \A k \in DOMAIN tasks : tasks'[k] = tasks[k]
             /\ Candidates(trackings, last'.guild, now) # {}
             /\ Candidates(trackings, last'.guild, now)
                    \subseteq Candidates(trackings', last'.guild, now')]_vars

\* The event dispatched last was a response whose commit raised, before the
\* timer of an open record of its guild fired; the record was escalated.
C29_Witness ==
    /\ last.resolve = "rolled_back"
    /\ last.kind = "reaction"
    /\ \E i \in DOMAIN trackings :
          /\ trackings[i].server_id = last.guild
          /\ trackings[i].mention_timestamp <= last.at
          /\ last.at < trackings[i].mention_timestamp + notification_timeout
          /\ ~trackings[i].is_resolved
          /\ Notified(i)

\* C30: a record resolved by a reaction carries the creation time of the
\* message reacted to as its response timestamp; if that message is the one
\* that opened the record, the latency is 0.
C30_ReactionTimestamp ==
    \A i \in DOMAIN trackings :
        trackings[i].response_type = Some("reaction")
            => \A mid \in trackings[i].response_message_id :
                  /\ posted[mid] # Unposted
                  /\ trackings[i].response_timestamp =
                         Some(PostedAt(posted[mid]))
                  /\ mid = trackings[i].mention_message_id
                        => trackings[i].response_time_seconds = Some(0)

\* The event dispatched last was a reaction added some time after the help
\* request it was put on, and it resolved the record of that request.
C30_Witness ==
    /\ last.kind = "reaction"
    /\ last.resolve = "committed"
    /\ \E i \in DOMAIN trackings :
          /\ trackings[i].response_type = Some("reaction")
          /\ trackings[i].curator_id = Some(last.user)
          /\ trackings[i].response_message_id =
                 Some(trackings[i].mention_message_id)
          /\ trackings[i].mention_timestamp < last.at

----------------------------------------------------------------------------
\* Properties of the rating system under reconfiguration.

\* The points the rows of the period were worth when they were recorded;
\* every row is written under the configuration _load_rating_config creates.
RECURSIVE RecordedBase(_)
RecordedBase(rows) ==
    IF rows = {} THEN 0
    ELSE LET r == CHOOSE x \in rows : TRUE
             value == CASE r.type = "message" -> activity_points_message
                        [] r.type = "reaction" -> activity_points_reaction
                        [] r.type = "reply" -> activity_points_reply
                        [] r.type = "task_verification"
                              -> activity_points_task_verification
         IN value * db.activities[r] + RecordedBase(rows \ {r})

\* C21: the base score counts every activity row with the points its type
\* had when the row was recorded, whatever the configuration is at the time
\* of the call.
C21_PointsFixedAtRecording ==
    result.kind = "rating"
       => result.value.score_data.base_score
             = RecordedBase(RowsInWindow(db.activities))

\* C22: when table rating_settings is empty the thresholds in force are
\* excellent 50, good 35, normal 20, poor 10 and terrible 0, and every score
\* gets one of these bands, with a minimum the score reaches.
C22_DefaultBands ==
    (result.kind = "rating" /\ db.rating_settings_found = {})
       => /\ Len(db.rating_thresholds) = 5
          /\ {<<db.rating_thresholds[k].rating_name,
                db.rating_thresholds[k].min_score>> :
                   k \in DOMAIN db.rating_thresholds}
                = {<<"excellent", 50>>, <<"good", 35>>, <<"normal", 20>>,
                   <<"poor", 10>>, <<"terrible", 0>>}
          /\ \E k \in DOMAIN db.rating_thresholds :
                /\ db.rating_thresholds[k].rating_name = result.value.rating_name
                /\ db.rating_thresholds[k].min_score = result.value.min_score
          /\ \A s \in 0..MaxScore :
                rating_for(db.rating_thresholds, s).min_score <= s

C22_Witness ==
    /\ result.kind = "rating"
    /\ db.rating_settings_found = {}
    /\ result.value.rating_name = "terrible"
    /\ result.value.score > 0

====
